---- MODULE Spec2Model ----
(***************************************************************************)
(* PhotoLocationSorter (src/app.py): the lazy EXIF cache, the location     *)
(* closeness predicate, the exponential-then-binary search for the end of  *)
(* a location group, the naming of a group and the segmentation loop of    *)
(* process_photos.                                                         *)
(*                                                                         *)
(* Conventions.  A photo path is identified by its position in the sorted  *)
(* directory listing, counted from 0 as in the source; photos is a TLA+    *)
(* sequence, so the record at Python index k is photos[k + 1].  Angles are *)
(* integers: a decimal degree rounded to 4 places is the integer number of *)
(* 1e-4 degrees, a degree/minute/second triple is converted through its    *)
(* number of arc seconds.  Python's None is the empty tuple.               *)
(***************************************************************************)
EXTENDS Integers, Sequences, FiniteSets, TLC

None == <<>>

\* tolerance=0.01 degrees, in units of 1e-4 degree
DefaultTolerance == 100

\* step = 8
InitialStep == 8

(***************************************************************************)
(* Bounds of the checked input families.                                   *)
(***************************************************************************)
\* a photo list of the segmentation runs is made of at most MaxRuns runs of
\* equal files, each of a length in RunLens
MaxRuns == 3
RunLens == {1, 8}
\* the photo lists of the runs checked for termination have at most
\* MaxFairRuns runs, each of a length in FairRunLens
MaxFairRuns == 2
FairRunLens == {1, 16}
\* the photo lists of the naming runs have at most MaxNameRuns runs, each of
\* a length in NameRunLens
MaxNameRuns == 2
NameRunLens == {1, 9}
\* the free accessor calls work on at most MaxPaths photos
MaxPaths == 2
\* files are modified at most MaxEdits times during the accessor calls
MaxEdits == 2

Abs(x) == IF x >= 0 THEN x ELSE -x

(***************************************************************************)
(* EXIF extraction                                                         *)
(***************************************************************************)

\* d, m, s = value.values; float(d) + float(m)/60.0 + float(s)/3600.0
\* (the result is carried as arc seconds = 3600 * decimal degrees)
ConvertToDegrees(value) == value[1] * 3600 + value[2] * 60 + value[3]

\* the unpacking d, m, s = value.values raises unless there are three values
ConvertRaises(value) == Len(value) # 3

\* round(x, 4) of a decimal degree given in arc seconds, in units of 1e-4
\* degree: the nearest integer to seconds * 10000 / 3600 = seconds * 25 / 9
\* (no tie exists: 50 * seconds is even, 18 * k + 9 is odd)
Round4(seconds) ==
    IF seconds >= 0 THEN (50 * seconds + 9) \div 18
                    ELSE -((50 * (-seconds) + 9) \div 18)

\* lines 65-85: the GPS part of _extract_exif_data
GpsCoordinates(gps) ==
    IF ~gps.present THEN None
    ELSE IF ConvertRaises(gps.lat) \/ ConvertRaises(gps.lon) THEN None
    ELSE LET lat0 == ConvertToDegrees(gps.lat)
             lat  == IF gps.latRef # "N" THEN -lat0 ELSE lat0
             lon0 == ConvertToDegrees(gps.lon)
             lon  == IF gps.lonRef # "E" THEN -lon0 ELSE lon0
         IN  <<Round4(lat), Round4(lon)>>

\* lines 88-98: the first date tag that strptime parses, None if there is none
RECURSIVE FirstParsedDate(_, _)
FirstParsedDate(dates, k) ==
    IF k > Len(dates) THEN None
    ELSE IF dates[k].present /\ dates[k].wellformed THEN <<dates[k].value>>
    ELSE FirstParsedDate(dates, k + 1)

\* _extract_exif_data without its outer handler: what the try block does.
\* exc: an exception left the block (open or exifread failed, or the date
\* fell back to os.path.getmtime and that raised)
TryExtract(file) ==
    IF ~file.readable
    THEN [exc |-> TRUE, coordinates |-> None, date_taken |-> 0]
    ELSE LET parsed == FirstParsedDate(file.dates, 1)
         IN  IF parsed = None /\ ~file.statable
             THEN [exc |-> TRUE, coordinates |-> None, date_taken |-> 0]
             ELSE [exc |-> FALSE,
                   coordinates |-> GpsCoordinates(file.gps),
                   date_taken |-> IF parsed = None THEN file.mtime
                                                   ELSE parsed[1]]

\* _extract_exif_data without the handler of lines 106-109
ExtractExifDataUnhandled(file) ==
    LET body == TryExtract(file)
    IN  [raised |-> body.exc, coordinates |-> body.coordinates,
         date_taken |-> body.date_taken]

\* _extract_exif_data: raised is TRUE when the call ends in an exception,
\* which only the getmtime of the handler at line 109 can cause
ExtractExifData(file) ==
    LET body == TryExtract(file)
    IN  IF ~body.exc
        THEN [raised |-> FALSE, coordinates |-> body.coordinates,
              date_taken |-> body.date_taken]
        ELSE IF file.statable
        THEN [raised |-> FALSE, coordinates |-> None, date_taken |-> file.mtime]
        ELSE [raised |-> TRUE, coordinates |-> None, date_taken |-> 0]

(***************************************************************************)
(* Closeness                                                               *)
(***************************************************************************)

\* are_locations_same with strict comparisons
are_locations_same_strict(coord1, coord2, tol) ==
    IF coord1 = None \/ coord2 = None
    THEN coord1 = coord2
    ELSE /\ Abs(coord1[1] - coord2[1]) < tol
         /\ Abs(coord1[2] - coord2[2]) < tol

\* are_locations_same(coord1, coord2, tolerance)
are_locations_same(coord1, coord2, tol) ==
    IF coord1 = None \/ coord2 = None
    THEN coord1 = coord2
    ELSE /\ Abs(coord1[1] - coord2[1]) <= tol
         /\ Abs(coord1[2] - coord2[2]) <= tol

(***************************************************************************)
(* Names                                                                   *)
(***************************************************************************)

\* get_location_name: "no_location", or f"{abs(lat):.4f}{N|S}_{abs(lon):.4f}{E|W}"
get_location_name(coordinates) ==
    IF coordinates = None THEN <<"no_location">>
    ELSE LET lat == coordinates[1]
             lon == coordinates[2]
             lat_dir == IF lat >= 0 THEN "N" ELSE "S"
             lon_dir == IF lon >= 0 THEN "E" ELSE "W"
         IN  <<Abs(lat), lat_dir, Abs(lon), lon_dir>>

\* what the geocoding request of lines 276-318 can end in
GeocodeOutcomes == {"network_error", "http_error", "api_error", "no_results", "ok"}

\* the name the geocoding service gives to a place
PlaceName == <<"locality">>

\* a dict with key set to val
CachePut(cache, key, val) ==
    [q \in (DOMAIN cache) \cup {key} |-> IF q = key THEN val ELSE cache[q]]

\* get_location_name_from_google(coordinates) with the outcome of the request
\* it may make; the result and the geocoding cache it leaves
get_location_name_from_google(gcache, coordinates, outcome) ==
    IF coordinates = None
    THEN [name |-> None, geocoding_cache |-> gcache]
    ELSE LET coord_key == coordinates
         IN  IF coord_key \in DOMAIN gcache
             THEN [name |-> gcache[coord_key], geocoding_cache |-> gcache]
             ELSE IF outcome \in {"network_error", "http_error"}
             THEN [name |-> None, geocoding_cache |-> gcache]
             ELSE IF outcome \in {"api_error", "no_results"}
             THEN [name |-> None,
                   geocoding_cache |-> CachePut(gcache, coord_key, None)]
             ELSE [name |-> PlaceName,
                   geocoding_cache |-> CachePut(gcache, coord_key, PlaceName)]

\* get_best_location_name(coordinates)
get_best_location_name(api_key, gcache, coordinates, outcome) ==
    IF api_key
    THEN get_location_name_from_google(gcache, coordinates, outcome)
    ELSE [name |-> get_location_name(coordinates), geocoding_cache |-> gcache]

\* TRUE when get_best_location_name sends a geocoding request
MakesRequest(api_key, gcache, coordinates) ==
    api_key /\ coordinates # None /\ coordinates \notin DOMAIN gcache

(***************************************************************************)
(* Files                                                                   *)
(***************************************************************************)

DateTag(present, wellformed) ==
    [present |-> present, wellformed |-> wellformed, value |-> 1]

NoGps == [present |-> FALSE, lat |-> <<>>, latRef |-> "N", lon |-> <<>>, lonRef |-> "E"]

Gps(lat, latRef, lon, lonRef) ==
    [present |-> TRUE, lat |-> lat, latRef |-> latRef, lon |-> lon, lonRef |-> lonRef]

GoodDates == <<DateTag(TRUE, TRUE), DateTag(FALSE, FALSE), DateTag(TRUE, TRUE)>>
BadDates  == <<DateTag(TRUE, FALSE), DateTag(FALSE, FALSE), DateTag(TRUE, FALSE)>>
LateDate  == <<DateTag(TRUE, FALSE), DateTag(FALSE, FALSE), DateTag(TRUE, TRUE)>>

\* a listed photo file.  statable: os.path.getmtime succeeds on it, which
\* holds for every file of the listing, since process_photos has read its
\* modification time to sort the listing (line 348)
PhotoFile(readable, gps, dates) ==
    [readable |-> readable, statable |-> TRUE, gps |-> gps, dates |-> dates,
     mtime |-> 0]

\* 0.0000N 0.0000E, dated
FileA == PhotoFile(TRUE, Gps(<<0, 0, 0>>, "N", <<0, 0, 0>>, "E"), GoodDates)
\* 0.0100N 0.0000E (within the default tolerance of FileA), no parsable date
FileB == PhotoFile(TRUE, Gps(<<0, 0, 36>>, "N", <<0, 0, 0>>, "E"), BadDates)
\* 0.0103N 0.0000E (out of the tolerance of FileA, within that of FileB)
FileF == PhotoFile(TRUE, Gps(<<0, 0, 37>>, "N", <<0, 0, 0>>, "E"), GoodDates)
\* a file open() or exifread fails on
FileU == PhotoFile(FALSE, NoGps, GoodDates)
\* no GPS tags, the first date tag malformed
FileN == PhotoFile(TRUE, NoGps, LateDate)
\* GPS tags that do not convert, dated
FileG == PhotoFile(TRUE, Gps(<<0, 0>>, "N", <<0, 0, 0>>, "E"), GoodDates)
\* 1.0000S 0.0167W
FileS == PhotoFile(TRUE, Gps(<<1, 0, 0>>, "S", <<0, 1, 0>>, "W"), GoodDates)

\* the files of the segmentation runs
SegKinds == {FileA, FileB, FileF, FileU}
\* the files of the accessor calls
CacheKinds == {FileA, FileB, FileU}
\* the files of the naming runs
AllKinds == {FileA, FileB, FileF, FileU, FileN, FileG, FileS}

\* the modification time of the file listed at position k (from 0): the
\* listing is sorted by os.path.getmtime (lines 345-349)
MtimeAt(k) == 10 + k

RECURSIVE Expand(_, _, _)
\* the sorted listing made of the given runs <<file, length>>, from run r on,
\* appended to acc
Expand(runs, r, acc) ==
    IF r > Len(runs) THEN acc
    ELSE LET more == [k \in 1..runs[r][2] |->
                        [runs[r][1] EXCEPT !.mtime = MtimeAt(Len(acc) + k - 1)]]
         IN  Expand(runs, r + 1, acc \o more)

(***************************************************************************)
(* State                                                                   *)
(***************************************************************************)
VARIABLES
    photos,           \* photo_files: the sorted listing, as the files' contents
    tolerance,        \* the tolerance are_locations_same compares with
    google_api_key,   \* self.google_api_key is set
    location_cache,   \* self.location_cache: path -> coordinates or None
    date_cache,       \* self.date_cache: path -> date
    geocoding_cache,  \* self.geocoding_cache: coord_key -> name or None
    extract_calls,    \* path -> number of calls of _extract_exif_data
    first,            \* path -> what the first _extract_exif_data returned,
                      \*         and the accessor that called it
    ret,              \* the last accessor call made from outside and its result
    edits,            \* number of file modifications so far
    pc,               \* where process_photos stands
    i,                \* process_photos: i
    processed,        \* process_photos: processed
    start_location,   \* find_location_group_end: start_location
    left,             \* find_location_group_end: left
    right,            \* find_location_group_end: right
    step,             \* find_location_group_end: step
    current,          \* find_location_group_end: current
    probe,            \* the index of photos find_location_group_end read last
    group_end,        \* process_photos: group_end
    location,         \* process_photos: location
    j,                \* process_photos: j
    location_name,    \* process_photos: location_name
    location_groups,  \* process_photos: location_groups, name -> list of photos
    groups            \* the <<i, group_end>> of the groups emitted so far

cacheVars == <<location_cache, date_cache, extract_calls, first>>
searchVars == <<start_location, left, right, step, current, probe, group_end>>
outVars == <<location, j, location_name, location_groups, groups,
            geocoding_cache>>
vars == <<photos, tolerance, google_api_key, location_cache, date_cache,
          geocoding_cache, extract_calls, first, ret, edits, pc, i, processed,
          start_location, left, right, step, current, probe, group_end,
          location, j, location_name, location_groups, groups>>

\* len(photos)
NumPhotos == Len(photos)

\* photos[idx] raises IndexError unless idx is a position of the list
InRange(idx) == idx >= 0 /\ idx < NumPhotos

\* the file at photos[idx]
FileAt(idx) == photos[idx + 1]

\* the caches and counters as one value
CacheState ==
    [location_cache |-> location_cache, date_cache |-> date_cache,
     extract_calls |-> extract_calls, first |-> first,
     raised |-> FALSE, value |-> None]

\* lines 121-123 and 136-138: extract, then store both values
Resolve(st, image_path, accessor) ==
    LET r == ExtractExifData(FileAt(image_path))
        calls == [st.extract_calls EXCEPT ![image_path] = @ + 1]
    IN  IF r.raised
        THEN [st EXCEPT !.extract_calls = calls, !.raised = TRUE]
        ELSE [st EXCEPT
                !.location_cache = CachePut(@, image_path, r.coordinates),
                !.date_cache = CachePut(@, image_path, r.date_taken),
                !.extract_calls = calls,
                !.first = IF image_path \in DOMAIN @ THEN @
                          ELSE CachePut(@, image_path,
                                        <<r.coordinates, r.date_taken, accessor>>)]

\* get_location_lazy(image_path) in the cache state st: the state it leaves,
\* with the value it returns, or raised
get_location_lazy(st, image_path) ==
    LET st1 == IF image_path \notin DOMAIN st.location_cache
               THEN Resolve(st, image_path, "location") ELSE st
    IN  IF st1.raised THEN st1
        ELSE [st1 EXCEPT !.value = st1.location_cache[image_path]]

\* get_date_lazy looking the path up in no cache
get_date_lazy_uncached(st, image_path) ==
    LET st1 == Resolve(st, image_path, "date")
    IN  IF st1.raised THEN st1
        ELSE [st1 EXCEPT !.value = st1.date_cache[image_path]]

\* get_date_lazy(image_path)
get_date_lazy(st, image_path) ==
    LET st1 == IF image_path \notin DOMAIN st.date_cache
               THEN Resolve(st, image_path, "date") ELSE st
    IN  IF st1.raised THEN st1
        ELSE [st1 EXCEPT !.value = st1.date_cache[image_path]]

\* the caches and counters become those of st
StoreCaches(st) ==
    /\ location_cache' = st.location_cache
    /\ date_cache' = st.date_cache
    /\ extract_calls' = st.extract_calls
    /\ first' = st.first

\* an exception leaves process_photos: main() reports it and the run ends
Raise(st) ==
    /\ pc' = "raised"
    /\ StoreCaches(st)
    /\ UNCHANGED <<photos, tolerance, google_api_key, ret, edits, i, processed,
                   searchVars, outVars>>

(***************************************************************************)
(* process_photos                                                          *)
(***************************************************************************)

\* NoLocationEnd returning the start index itself
NoLocationEndSame(start_index) == start_index

\* line 199: the end of the group of a photo without location
NoLocationEnd(start_index) == start_index + 1

\* ProbeInBounds letting the index len(photos) through
ProbeInBoundsInclusive(idx) == idx <= NumPhotos

\* line 207: while current < len(photos)
ProbeInBounds(idx) == idx < NumPhotos

\* line 220: mid = (left + right) // 2
Midpoint(l, r) == (l + r) \div 2

\* PastClose stepping over the index after the midpoint
PastCloseSkip(mid) == mid + 2

\* PastClose keeping the midpoint as the lower bound
PastCloseSame(mid) == mid

\* line 224: left = mid + 1
PastClose(mid) == mid + 1

\* lines 342-363: the listing is taken; an empty one ends the run
ProcessPhotos ==
    /\ pc = "start"
    /\ IF NumPhotos = 0
       THEN pc' = "done" /\ UNCHANGED <<i, processed>>
       ELSE pc' = "loop" /\ i' = 0 /\ processed' = 0
    /\ UNCHANGED <<photos, tolerance, google_api_key, cacheVars, ret, edits,
                   searchVars, outVars>>

\* lines 364-365, 192-206: the loop test holds and find_location_group_end
\* starts at start_index = i: it reads the anchor, returns i + 1 when the
\* anchor has no location, and otherwise sets up the exponential search
FindGroupEndStart ==
    /\ pc = "loop"
    /\ i < NumPhotos
    /\ \E start_index \in {i} :
       \E st \in {get_location_lazy(CacheState, start_index)} :
           IF start_index >= NumPhotos
           THEN /\ group_end' = start_index
                /\ pc' = "emit"
                /\ UNCHANGED <<photos, tolerance, google_api_key, cacheVars,
                               ret, edits, i, processed, start_location, left,
                               right, step, current, probe, outVars>>
           ELSE IF st.raised THEN Raise(st)
           ELSE /\ StoreCaches(st)
                /\ probe' = start_index
                /\ start_location' = st.value
                /\ IF st.value = None
                   THEN /\ group_end' = NoLocationEnd(start_index)
                        /\ pc' = "emit"
                        /\ UNCHANGED <<left, right, step, current>>
                   ELSE /\ left' = start_index + 1
                        /\ right' = NumPhotos
                        /\ step' = InitialStep
                        /\ current' = start_index + InitialStep
                        /\ pc' = "exp"
                        /\ UNCHANGED group_end
                /\ UNCHANGED <<photos, tolerance, google_api_key, ret, edits,
                               i, processed, outVars>>

\* lines 207-216: one probe of the exponential search
ExponentialProbe ==
    /\ pc = "exp"
    /\ ProbeInBounds(current)
    /\ IF ~InRange(current)
       THEN /\ probe' = current
            /\ pc' = "raised"
            /\ UNCHANGED <<photos, tolerance, google_api_key, cacheVars, ret,
                           edits, i, processed, start_location, left, right,
                           step, current, group_end, outVars>>
       ELSE \E st \in {get_location_lazy(CacheState, current)} :
                IF st.raised THEN Raise(st)
                ELSE /\ StoreCaches(st)
                     /\ probe' = current
                     /\ IF ~are_locations_same(start_location, st.value, tolerance)
                        THEN /\ right' = current
                             /\ pc' = "bin"
                             /\ UNCHANGED <<left, step, current>>
                        ELSE /\ left' = current
                             /\ step' = step * 2
                             /\ current' = i + step * 2
                             /\ pc' = "exp"
                             /\ UNCHANGED right
                     /\ UNCHANGED <<photos, tolerance, google_api_key, ret,
                                    edits, i, processed, start_location,
                                    group_end, outVars>>

\* line 207: the probe index is past the end, the exponential search is over
ExponentialEnd ==
    /\ pc = "exp"
    /\ ~ProbeInBounds(current)
    /\ pc' = "bin"
    /\ UNCHANGED <<photos, tolerance, google_api_key, cacheVars, ret, edits, i,
                   processed, searchVars, outVars>>

\* lines 219-226: one step of the binary search
BinaryStep ==
    /\ pc = "bin"
    /\ left < right
    /\ LET mid == Midpoint(left, right)
       IN  IF ~InRange(mid)
           THEN /\ probe' = mid
                /\ pc' = "raised"
                /\ UNCHANGED <<photos, tolerance, google_api_key, cacheVars,
                               ret, edits, i, processed, start_location, left,
                               right, step, current, group_end, outVars>>
           ELSE \E st \in {get_location_lazy(CacheState, mid)} :
                    IF st.raised THEN Raise(st)
                    ELSE /\ StoreCaches(st)
                         /\ probe' = mid
                         /\ IF are_locations_same(start_location, st.value, tolerance)
                            THEN left' = PastClose(mid) /\ UNCHANGED right
                            ELSE right' = mid /\ UNCHANGED left
                         /\ pc' = "bin"
                         /\ UNCHANGED <<photos, tolerance, google_api_key, ret,
                                        edits, i, processed, start_location,
                                        step, current, group_end, outVars>>

\* lines 219, 228: the binary search is over, find_location_group_end returns left
BinaryReturn ==
    /\ pc = "bin"
    /\ ~(left < right)
    /\ group_end' = left
    /\ pc' = "emit"
    /\ UNCHANGED <<photos, tolerance, google_api_key, cacheVars, ret, edits, i,
                   processed, start_location, left, right, step, current,
                   probe, outVars>>

\* location_groups[name].append(item) of a defaultdict(list)
AppendTo(lgroups, name, item) ==
    CachePut(lgroups, name,
             Append(IF name \in DOMAIN lgroups THEN lgroups[name] ELSE <<>>, item))

\* lines 367-371: the location of the group [i, group_end) is that of its
\* first photo, and the group gets its name
NameGroup ==
    /\ pc = "emit"
    /\ \E st \in {get_location_lazy(CacheState, i)} :
           IF st.raised THEN Raise(st)
           ELSE \E outcome \in IF MakesRequest(google_api_key, geocoding_cache, st.value)
                               THEN GeocodeOutcomes ELSE {"none"} :
                  LET named == get_best_location_name(google_api_key,
                                   geocoding_cache, st.value, outcome)
                  IN  /\ StoreCaches(st)
                      /\ location' = st.value
                      /\ location_name' = named.name
                      /\ geocoding_cache' = named.geocoding_cache
                      /\ j' = i
                      /\ pc' = "add"
                      /\ UNCHANGED <<photos, tolerance, google_api_key, ret,
                                     edits, i, processed, searchVars,
                                     location_groups, groups>>

\* lines 374-382: one iteration of for j in range(i, group_end)
AddPhoto ==
    /\ pc = "add"
    /\ j < group_end
    /\ IF ~InRange(j)
       THEN /\ pc' = "raised"
            /\ UNCHANGED <<photos, tolerance, google_api_key, cacheVars, ret,
                           edits, i, processed, searchVars, outVars>>
       ELSE \E st \in {get_date_lazy(CacheState, j)} :
                IF st.raised THEN Raise(st)
                ELSE /\ StoreCaches(st)
                     /\ location_groups' =
                           AppendTo(location_groups, location_name,
                                    [path |-> j, date |-> st.value,
                                     coordinates |-> location])
                     /\ j' = j + 1
                     /\ UNCHANGED <<photos, tolerance, google_api_key, ret,
                                    edits, pc, i, processed, searchVars,
                                    location, location_name, groups,
                                    geocoding_cache>>

\* lines 374, 384-388: the group is complete, i moves to group_end
AdvanceGroup ==
    /\ pc = "add"
    /\ ~(j < group_end)
    /\ processed' = processed + (group_end - i)
    /\ groups' = Append(groups, <<i, group_end>>)
    /\ i' = group_end
    /\ pc' = "loop"
    /\ UNCHANGED <<photos, tolerance, google_api_key, cacheVars, ret, edits,
                   searchVars, j, location, location_name, location_groups,
                   geocoding_cache>>

\* lines 364, 390-392: the loop test fails; the groups go to
\* create_folders_and_move_photos
FinishLoop ==
    /\ pc = "loop"
    /\ ~(i < NumPhotos)
    /\ pc' = "done"
    /\ UNCHANGED <<photos, tolerance, google_api_key, cacheVars, ret, edits, i,
                   processed, searchVars, outVars>>

(***************************************************************************)
(* Accessor calls made from outside process_photos                         *)
(***************************************************************************)

\* a call of get_location_lazy(path)
CallGetLocationLazy(path) ==
    /\ pc = "idle"
    /\ \E st \in {get_location_lazy(CacheState, path)} :
           IF st.raised THEN Raise(st)
           ELSE /\ StoreCaches(st)
                /\ ret' = [path |-> path, accessor |-> "location", value |-> st.value]
                /\ UNCHANGED <<photos, tolerance, google_api_key, edits, pc, i,
                               processed, searchVars, outVars>>

\* a call of get_date_lazy(path)
CallGetDateLazy(path) ==
    /\ pc = "idle"
    /\ \E st \in {get_date_lazy(CacheState, path)} :
           IF st.raised THEN Raise(st)
           ELSE /\ StoreCaches(st)
                /\ ret' = [path |-> path, accessor |-> "date", value |-> st.value]
                /\ UNCHANGED <<photos, tolerance, google_api_key, edits, pc, i,
                               processed, searchVars, outVars>>

\* the file at path is rewritten with other metadata between two calls
ModifyFile(path) ==
    /\ pc = "idle"
    /\ edits < MaxEdits
    /\ \E file \in CacheKinds :
         /\ file.gps # FileAt(path).gps \/ file.dates # FileAt(path).dates
                \/ file.readable # FileAt(path).readable
         /\ photos' = [photos EXCEPT ![path + 1] =
                          [file EXCEPT !.mtime = FileAt(path).mtime + 100]]
    /\ edits' = edits + 1
    /\ UNCHANGED <<tolerance, google_api_key, cacheVars, ret, pc, i, processed,
                   searchVars, outVars>>

(***************************************************************************)
(* Specifications                                                          *)
(***************************************************************************)

\* the state of a sorter just constructed (lines 34-40) for the given listing
Constructed(listing, tol, key) ==
    /\ photos = listing
    /\ tolerance = tol
    /\ google_api_key = key
    /\ location_cache = <<>>
    /\ date_cache = <<>>
    /\ geocoding_cache = <<>>
    /\ extract_calls = [p \in 0..(Len(listing) - 1) |-> 0]
    /\ first = <<>>
    /\ ret = [path |-> 0, accessor |-> "none", value |-> None]
    /\ edits = 0
    /\ i = 0
    /\ processed = 0
    /\ start_location = None
    /\ left = 0
    /\ right = 0
    /\ step = 0
    /\ current = 0
    /\ probe = 0
    /\ group_end = 0
    /\ location = None
    /\ j = 0
    /\ location_name = None
    /\ location_groups = <<>>
    /\ groups = <<>>

\* the listings of at most maxRuns runs of files of kinds, of lengths in lens
Listings(maxRuns, kinds, lens) ==
    UNION {{Expand(runs, 1, <<>>) : runs \in [1..n -> kinds \X lens]} :
           n \in 0..maxRuns}

\* process_photos segments a listing, without an API key, with the default
\* tolerance or with tolerance 0
Init ==
    /\ pc = "start"
    /\ \E listing \in Listings(MaxRuns, SegKinds, RunLens) :
       \E tol \in {0, DefaultTolerance} :
          Constructed(listing, tol, FALSE)

Next ==
    \/ ProcessPhotos
    \/ FindGroupEndStart
    \/ ExponentialProbe
    \/ ExponentialEnd
    \/ BinaryStep
    \/ BinaryReturn
    \/ NameGroup
    \/ AddPhoto
    \/ AdvanceGroup
    \/ FinishLoop

Spec == Init /\ [][Next]_vars

\* process_photos segments a listing, with the default tolerance or with
\* tolerance 0
InitFair ==
    /\ pc = "start"
    /\ \E listing \in Listings(MaxFairRuns, SegKinds, FairRunLens) :
       \E tol \in {0, DefaultTolerance} :
          Constructed(listing, tol, FALSE)

\* execution is sequential and synchronous: a step of process_photos that
\* can be taken is taken
FairSpec == InitFair /\ [][Next]_vars /\ WF_vars(Next)

\* process_photos segments a short listing of files of all kinds, with or
\* without an API key
InitNames ==
    /\ pc = "start"
    /\ \E listing \in Listings(MaxNameRuns, AllKinds, NameRunLens) :
       \E key \in BOOLEAN :
          Constructed(listing, DefaultTolerance, key)

SpecNames == InitNames /\ [][Next]_vars

\* the accessors are called on the photos of a listing, in any order, while
\* the files change
InitCache ==
    /\ pc = "idle"
    /\ \E n \in 1..MaxPaths :
       \E kindOf \in [1..n -> CacheKinds] :
          Constructed([k \in 1..n |-> [kindOf[k] EXCEPT !.mtime = MtimeAt(k - 1)]],
                      DefaultTolerance, FALSE)

NextCache ==
    \/ \E path \in 0..(NumPhotos - 1) : CallGetLocationLazy(path)
    \/ \E path \in 0..(NumPhotos - 1) : CallGetDateLazy(path)
    \/ \E path \in 0..(NumPhotos - 1) : ModifyFile(path)

SpecCache == InitCache /\ [][NextCache]_vars

(***************************************************************************)
(* Properties                                                              *)
(***************************************************************************)

\* the coordinate of record k: what the cache holds for it, or will hold
CoordOf(k) ==
    IF k \in DOMAIN location_cache THEN location_cache[k]
    ELSE ExtractExifData(FileAt(k)).coordinates

\* "close enough" (spec 4.2): both present, each axis within the tolerance
CloseEnough(c1, c2) ==
    /\ c1 # None
    /\ c2 # None
    /\ c1[1] - c2[1] <= tolerance /\ c2[1] - c1[1] <= tolerance
    /\ c1[2] - c2[2] <= tolerance /\ c2[2] - c1[2] <= tolerance

RECURSIVE Members(_, _)
\* the members of the groups gs[g..], concatenated in emission order
Members(gs, g) ==
    IF g > Len(gs) THEN <<>>
    ELSE [k \in 1..(gs[g][2] - gs[g][1]) |-> gs[g][1] + k - 1] \o Members(gs, g + 1)

\* the paths stored in location_groups, as a set, and their number
StoredPaths ==
    UNION {{location_groups[n][k].path : k \in 1..Len(location_groups[n])} :
           n \in DOMAIN location_groups}

RECURSIVE StoredCount(_)
StoredCount(names) ==
    IF names = {} THEN 0
    ELSE LET n == CHOOSE x \in names : TRUE
         IN  Len(location_groups[n]) + StoredCount(names \ {n})

\* C1 Partition: the groups emitted so far are non-empty and contiguous from
\* index 0, their members concatenated in emission order are the records
\* 0 .. i-1 in input order, each stored exactly once in location_groups, and
\* when the loop has ended they are the whole input
Partition ==
    /\ \A g \in 1..Len(groups) :
          /\ groups[g][1] < groups[g][2]
          /\ groups[g][1] = IF g = 1 THEN 0 ELSE groups[g - 1][2]
          /\ groups[g][2] <= NumPhotos
    /\ Members(groups, 1) = [k \in 1..i |-> k - 1]
    /\ pc \in {"loop", "exp", "bin", "emit", "done"} =>
          /\ StoredPaths = 0..(i - 1)
          /\ StoredCount(DOMAIN location_groups) = i
    /\ pc = "done" => Members(groups, 1) = [k \in 1..NumPhotos |-> k - 1]

\* a run that ended with several groups, one of them found by probing
PartitionWitness ==
    /\ pc = "done"
    /\ Len(groups) >= 3
    /\ \E g \in 1..Len(groups) : groups[g][2] - groups[g][1] > InitialStep

\* C2 Anchor-closeness: every member of an emitted group has a coordinate
\* close enough to the coordinate of the group's first member
AnchorCloseness ==
    \A g \in 1..Len(groups) :
       \A k \in groups[g][1]..(groups[g][2] - 1) :
          are_locations_same(CoordOf(groups[g][1]), CoordOf(k), tolerance)

\* C3 Singleton-on-absence: a record without coordinate is emitted as a group
\* of its own
SingletonOnAbsence ==
    \A g \in 1..Len(groups) :
       \A k \in groups[g][1]..(groups[g][2] - 1) :
          CoordOf(k) = None => groups[g][2] - groups[g][1] = 1

\* the end a linear scan from start finds: the smallest index > start not close
\* enough to the anchor, or len(photos)
LinearEnd(start) ==
    LET far == {m \in (start + 1)..(NumPhotos - 1) :
                   ~CloseEnough(CoordOf(start), CoordOf(m))}
    IN  IF far = {} THEN NumPhotos
        ELSE CHOOSE m \in far : \A m2 \in far : m <= m2

\* C4 Exact boundary: for an anchor with a coordinate, the index
\* find_location_group_end returns is the one a linear scan finds
ExactBoundary ==
    (pc = "emit" /\ CoordOf(i) # None) => group_end = LinearEnd(i)

\* C5 Idempotent cache: _extract_exif_data has been called at most once for
\* each path, by whichever accessor was called first; both caches hold what
\* that call returned, and the last accessor call returned that value
IdempotentCache ==
    /\ \A p \in 0..(NumPhotos - 1) :
          /\ extract_calls[p] <= 1
          /\ (extract_calls[p] = 1) = (p \in DOMAIN location_cache)
          /\ (extract_calls[p] = 1) = (p \in DOMAIN date_cache)
          /\ p \in DOMAIN first =>
                /\ location_cache[p] = first[p][1]
                /\ date_cache[p] = first[p][2]
    /\ ret.accessor = "location" => ret.value = first[ret.path][1]
    /\ ret.accessor = "date" => ret.value = first[ret.path][2]

\* get_date_lazy has returned the date that an earlier get_location_lazy
\* stored, for a file that would now be extracted differently
IdempotentCacheWitness ==
    /\ ret.accessor = "date"
    /\ ret.path \in DOMAIN first
    /\ first[ret.path][3] = "location"
    /\ ExtractExifData(FileAt(ret.path)).date_taken # first[ret.path][2]
    /\ ExtractExifData(FileAt(ret.path)).coordinates # first[ret.path][1]

\* C6 In-bounds probing: every index at which find_location_group_end reads
\* photos lies in start_index .. len(photos)-1, and no read raises
InBoundsProbing ==
    /\ pc # "raised"
    /\ pc \in {"exp", "bin", "emit"} => (i <= probe /\ probe <= NumPhotos - 1)

\* the second exponential probe has read the last record of the list
InBoundsProbingWitness ==
    /\ pc \in {"exp", "bin"}
    /\ probe = i + 2 * InitialStep
    /\ probe = NumPhotos - 1

\* reading or parsing the metadata of the file fails somewhere
MetadataFails(file) ==
    \/ ~file.readable
    \/ file.gps.present /\ (Len(file.gps.lat) # 3 \/ Len(file.gps.lon) # 3)
    \/ \E k \in 1..Len(file.dates) :
          file.dates[k].present /\ ~file.dates[k].wellformed

\* no date tag of the file parses
NoDateParses(file) ==
    \A k \in 1..Len(file.dates) :
       ~(file.dates[k].present /\ file.dates[k].wellformed)

\* every record of the input is in an emitted group
AllEmitted == Len(groups) > 0 /\ groups[Len(groups)][2] = NumPhotos

NameFallback ==
    /\ None \notin DOMAIN location_groups
    /\ Len(groups) > 0 =>
          /\ location_name # None
          /\ location_name \in
                {PlaceName, get_location_name(CoordOf(groups[Len(groups)][1]))}

\* C9 Termination: every call of find_location_group_end returns an index
\* above start_index and at most len(photos), and the segmentation loop ends
Termination ==
    /\ [](pc = "emit" => (i < group_end /\ group_end <= NumPhotos))
    /\ <>(pc = "done")

\* a run with tolerance 0 over more than two probe offsets has ended
TerminationWitness ==
    /\ pc = "done"
    /\ tolerance = 0
    /\ NumPhotos > 2 * InitialStep
    /\ \E g \in 1..Len(groups) : groups[g][2] - groups[g][1] > 2 * InitialStep

\* every record is close enough to the first, which has a coordinate
AllCloseToFirst ==
    /\ NumPhotos > 0
    /\ \A k \in 0..(NumPhotos - 1) : CloseEnough(CoordOf(0), CoordOf(k))

\* C10 Whole-input run: when every record is close enough to the first one,
\* find_location_group_end(photos, 0) returns len(photos) and the run emits
\* exactly one group, the whole input
WholeInputRun ==
    AllCloseToFirst =>
       /\ (pc = "emit" /\ i = 0) => group_end = NumPhotos
       /\ pc = "done" => groups = << <<0, NumPhotos>> >>

\* such a run has ended, on a list longer than two probe offsets whose
\* records are not all equal
WholeInputRunWitness ==
    /\ AllCloseToFirst
    /\ pc = "done"
    /\ groups = << <<0, NumPhotos>> >>
    /\ NumPhotos > 2 * InitialStep
    /\ \E k \in 0..(NumPhotos - 1) : CoordOf(k) # CoordOf(0)

\* C11 Local boundary: for an anchor with a coordinate, the index e that
\* find_location_group_end returns is len(photos) or the index of a record
\* not close enough to the anchor, and e - 1 is the anchor or the index of a
\* record close enough to it, whether or not closeness is monotone along the
\* list
LocalBoundary ==
    (pc = "emit" /\ CoordOf(i) # None) =>
       /\ i < group_end
       /\ group_end <= NumPhotos
       /\ \/ group_end = NumPhotos
          \/ ~CloseEnough(CoordOf(i), CoordOf(group_end))
       /\ \/ group_end - 1 = i
          \/ CloseEnough(CoordOf(i), CoordOf(group_end - 1))

\* find_location_group_end has returned, behind records that are not close
\* to the anchor, an index that a linear scan would not
LocalBoundaryWitness ==
    /\ pc = "emit"
    /\ CoordOf(i) # None
    /\ group_end - 1 > i
    /\ group_end # LinearEnd(i)
    /\ \E k \in (i + 1)..(group_end - 1) : ~CloseEnough(CoordOf(i), CoordOf(k))

====
